---- MODULE Spec2Model ----
(***************************************************************************)
(* Bootstrap of the SigNoz backend (pkg/signoz/signoz.go, func New) and    *)
(* the lifecycle of the factory.Registry it assembles.                     *)
(*                                                                         *)
(* New is a straight-line sequence of calls; every call is modelled by a   *)
(* Call step (the callee is in progress) followed by the step's return     *)
(* action, which holds the code after the call: the error check, the       *)
(* assignment of the local, and the position of the next call.             *)
(*                                                                         *)
(* pkg/factory (NewProviderFromNamedMap, NewRegistry, Registry.Start,      *)
(* Registry.Stop) and pkg/sqlmigrator are called by New but their code is  *)
(* not part of the sources at hand: they are modelled from sections 4.1,   *)
(* 4.2 and 4.3 of the specification.                                       *)
(***************************************************************************)
EXTENDS Integers, Sequences, FiniteSets, TLC

\* ------------------------------------------------------------------ bounds
\* number of Start/Stop calls a caller makes on one registry
MaxCalls == 3
\* number of services handed to NewRegistry by a direct caller
MaxServices == 3
\* number of calls of New made against the same storage
MaxBoots == 2
\* number of steps in the ordered migration sequence
NumMigrations == 2

\* ------------------------------------------------------------ input domains
Nil == [kind |-> "nil"]

\* the components New selects by name out of a factory map
NamedComponents ==
  {"emailing", "cache", "web", "sqlstore", "telemetrystore", "prometheus", "alertmanager"}

\* provider names registered in each component's factory map
Registered(c) ==
  CASE c = "emailing"       -> {"noop", "smtp"}
    [] c = "cache"          -> {"memory"}
    [] c = "web"            -> {"router"}
    [] c = "sqlstore"       -> {"postgres", "sqlite"}
    [] c = "telemetrystore" -> {"clickhouse"}
    [] c = "prometheus"     -> {"clickhouse"}
    [] c = "alertmanager"   -> {"legacy", "signoz"}

\* provider names the configuration may select (one is absent from each map)
Selectable(c) ==
  CASE c = "emailing"       -> {"noop", "smtp", "sendgrid"}
    [] c = "cache"          -> {"memory", "redis"}
    [] c = "web"            -> {"router", "noop"}
    [] c = "sqlstore"       -> {"postgres", "sqlite", "mysql"}
    [] c = "telemetrystore" -> {"clickhouse", "druid"}
    [] c = "prometheus"     -> {"clickhouse", "remote"}
    [] c = "alertmanager"   -> {"legacy", "signoz", "external"}

\* names of the stub services of a directly constructed registry
ServiceNames == {"s1", "s2", "s3", "s4"}

VARIABLES
  mode,        \* "bootstrap": the caller runs New; "registry": the caller builds a Registry itself
  config,      \* config.<Component> provider selection, per named component
  pc,          \* the call of New that is next or in progress; "returned" after New
  active,      \* the calls of New in progress
  local,       \* the local variables of New
  invoked,     \* the calls New has made, in order
  calls,       \* the factory invocations made, with their arguments
  returns,     \* what each call of New returned: the step and its error (Nil on success)
  result,      \* what New returned: (*SigNoz, error)
  applied,     \* the migration steps the storage records as applied; outlives a call of New
  runs,        \* the Migrate calls made against the storage and what each did
  boots,       \* number of calls of New started
  cancelledAt, \* the call in progress when the caller cancelled ctx; "none" while ctx is live
  honours,     \* whether the callee that was in progress then honours cancellation
  closed,      \* the locals of New on which New invoked a stop or close
  regInput,    \* the named services a direct caller hands to NewRegistry
  registry,    \* the Registry: its ordered named services, or Nil
  regErr,      \* the error of NewRegistry
  regState,    \* "Unstarted", "Running", "Stopped"
  running,     \* names of the services whose start succeeded and whose stop was not invoked
  trace,       \* service-level start/stop invocations, in order
  history      \* the Start/Stop calls made on the registry and what each returned

bootVars == <<config, pc, active, local, invoked, calls, returns, result,
              applied, runs, boots, cancelledAt, honours, closed>>
envVars  == <<applied, runs, boots, cancelledAt, honours>>
regVars  == <<regInput, registry, regErr, regState, running, trace, history>>
vars     == <<mode, config, pc, active, local, invoked, calls, returns, result,
              applied, runs, boots, cancelledAt, honours, closed,
              regInput, registry, regErr, regState, running, trace, history>>

\* ---------------------------------------------------------------- helpers
Range(s) == {s[i] : i \in 1..Len(s)}

IsPrefix(s, t) == Len(s) <= Len(t) /\ \A i \in 1..Len(s) : s[i] = t[i]

Reverse(s) == [i \in 1..Len(s) |-> s[Len(s) + 1 - i]]

\* all sequences over S of length at most n
SeqsUpTo(S, n) == UNION {[1..k -> S] : k \in 0..n}

\* --------------------------------------------- pkg/factory, from the spec
\* what a constructor called by New can do: succeed, or fail with an error
\* whose text names the failing component, or fail with an opaque error
Outcomes == {"ok", "err_named", "err_opaque"}

\* what instrumentation.New, sqlmigration.New and Migrate can do: by the
\* propagation policy their errors identify the component that failed
CalleeOutcomes == {"ok", "err_named"}

\* a ProviderFactory: the component it builds, its registered name, and the
\* provider its generating function closed over (Nil for the static maps)
Factory(c, n, dep) == [kind |-> "factory", component |-> c, name |-> n, dep |-> dep]

\* ProviderFactory.New(ctx, settings, config): the instance it constructs, or its own error
FactoryNew(f, settings, cfg, outcome) ==
  IF outcome = "ok"
  THEN [provider |-> [kind |-> "provider", factory |-> f, settings |-> settings, config |-> cfg],
        err      |-> Nil]
  ELSE [provider |-> Nil,
        err      |-> [kind |-> IF outcome = "cancelled" THEN "Canceled" ELSE "FactoryError",
                      component |-> f.component,
                      named |-> (outcome = "err_named")]]

\* NewProviderFromNamedMap(ctx, settings, config, factories, key) for component type c:
\* NotFound when key is absent, else the matching factory's result, its error wrapped;
\* c stands for the type parameters of the call, the only place the component can come from
NewProviderFromNamedMap(c, settings, cfg, factories, key, outcome) ==
  IF key \notin DOMAIN factories
  THEN [provider |-> Nil,
        err      |-> [kind |-> "NotFound", component |-> c, name |-> key],
        called   |-> <<>>]
  ELSE LET r == FactoryNew(factories[key], settings, cfg, outcome)
       IN  [provider |-> r.provider,
            err      |-> IF r.err = Nil THEN Nil
                         ELSE [kind |-> "ConstructionFailure", component |-> c,
                               name |-> key, cause |-> r.err],
            called   |-> <<[factory |-> factories[key], settings |-> settings, config |-> cfg]>>]

NamedService(n, svc) == [name |-> n, service |-> svc]

\* NewRegistry(logger, services...): DuplicateName when two services share a name,
\* else the services in the given order
NewRegistry(services) ==
  IF \E i, j \in 1..Len(services) : i # j /\ services[i].name = services[j].name
  THEN [registry |-> Nil, err |-> [kind |-> "DuplicateName"]]
  ELSE [registry |-> [kind |-> "registry", services |-> services], err |-> Nil]

\* ------------------------------------------------ the arguments of New
\* config.<Component>: an opaque value that carries the selected provider name
Cfg(c) == [component |-> c, provider |-> IF c \in NamedComponents THEN config[c] ELSE ""]

\* the static factory maps handed to New
StaticFactories(c) == [n \in Registered(c) |-> Factory(c, n, Nil)]

EmailingProviderFactories == StaticFactories("emailing")
CacheProviderFactories == StaticFactories("cache")
WebProviderFactories == StaticFactories("web")
SqlstoreProviderFactories == StaticFactories("sqlstore")
TelemetrystoreProviderFactories == StaticFactories("telemetrystore")

\* the factory maps generated from an already constructed provider
NewPrometheusProviderFactories(telemetrystore) ==
  [n \in Registered("prometheus") |-> Factory("prometheus", n, telemetrystore)]

NewAlertmanagerProviderFactories(sqlstore) ==
  [n \in Registered("alertmanager") |-> Factory("alertmanager", n, sqlstore)]

NewSQLMigrationProviderFactories(sqlstore) ==
  [kind |-> "migrationFactories", sqlstore |-> sqlstore]

\* zeusProviderFactory, and the factory licenseProviderFactoryCb returns
ZeusProviderFactory == Factory("zeus", "zeus", Nil)

LicenseProviderFactoryCb(sqlstore, zeus) ==
  Factory("licensing", "licensing", [kind |-> "deps", sqlstore |-> sqlstore, zeus |-> zeus])

ToProviderSettings(instrumentation) == [kind |-> "settings", from |-> instrumentation]

NewModules(sqlstore, emailing, providerSettings) ==
  [kind |-> "modules", sqlstore |-> sqlstore, emailing |-> emailing, settings |-> providerSettings]

NewHandlers(modules) == [kind |-> "handlers", modules |-> modules]

\* ------------------------------------------------------------------ New
Locals == {"instrumentation", "providerSettings", "zeus", "emailing", "cache", "web",
           "sqlstore", "telemetrystore", "prometheus", "sqlmigrations", "alertmanager",
           "licensing", "modules", "handlers"}

\* the calls of New, in program order
StepOrder ==
  <<"instrumentation", "zeus", "emailing", "cache", "web", "sqlstore", "telemetrystore",
    "prometheus", "sqlmigration", "migrate", "alertmanager", "licensing", "modules",
    "handlers", "registry">>

Steps == Range(StepOrder)

\* the configurations New may be called with: one selected name per component
Configs ==
  {[emailing |-> e, cache |-> c, web |-> w, sqlstore |-> q, telemetrystore |-> t,
    prometheus |-> p, alertmanager |-> a] :
     e \in Selectable("emailing"), c \in Selectable("cache"), w \in Selectable("web"),
     q \in Selectable("sqlstore"), t \in Selectable("telemetrystore"),
     p \in Selectable("prometheus"), a \in Selectable("alertmanager")}

\* the caller has not built a registry yet
NoRegistry ==
  /\ registry = Nil /\ regErr = Nil /\ regState = "None" /\ running = {}
  /\ trace = <<>> /\ history = <<>>

Init ==
  /\ mode \in {"bootstrap", "registry"}
  /\ IF mode = "bootstrap"
     THEN /\ config \in Configs
          /\ pc = "instrumentation"
          /\ regInput = <<>>
     ELSE /\ config = [c \in NamedComponents |-> CHOOSE n \in Registered(c) : TRUE]
          /\ pc = "idle"
          /\ regInput \in SeqsUpTo(ServiceNames, MaxServices)
  /\ active = {}
  /\ local = [v \in Locals |-> Nil]
  /\ invoked = <<>>
  /\ calls = <<>>
  /\ returns = <<>>
  /\ result = Nil
  /\ applied = <<>>
  /\ runs = <<>>
  /\ boots = IF mode = "bootstrap" THEN 1 ELSE 0
  /\ cancelledAt = "none"
  /\ honours = FALSE
  /\ closed = {}
  /\ NoRegistry

\* the calls of New that are handed ctx
CtxSteps ==
  {"instrumentation", "zeus", "emailing", "cache", "web", "sqlstore", "telemetrystore",
   "prometheus", "sqlmigration", "migrate", "alertmanager", "licensing"}

\* what the callee of step s, handed ctx, can return: a callee that honours
\* cancellation and is interrupted returns the context's error; once ctx is
\* done any callee may return it; while ctx is live none does
OutcomesOf(s, base) ==
  IF cancelledAt = s /\ honours
  THEN {"cancelled"}
  ELSE IF cancelledAt # "none" THEN base \cup {"cancelled"} ELSE base

\* the caller cancels ctx while New is inside a callee that was handed ctx (the
\* other callees never see ctx, so a cancellation during them is observed by
\* nothing); the callee may honour the cancellation or run on regardless
Cancel ==
  /\ mode = "bootstrap"
  /\ cancelledAt = "none"
  /\ \E s \in active \cap CtxSteps :
       /\ cancelledAt' = s
       /\ honours' \in BOOLEAN
  /\ UNCHANGED <<mode, config, pc, active, local, invoked, calls, returns, result, closed>>
  /\ UNCHANGED <<applied, runs, boots>>
  /\ UNCHANGED regVars

\* the callee of step s is entered: New makes its calls one after the other
Call(s) ==
  /\ mode = "bootstrap"
  /\ pc = s
  /\ active = {}
  /\ active' = {s}
  /\ invoked' = Append(invoked, s)
  /\ UNCHANGED <<mode, config, pc, local, calls, returns, result, closed>>
  /\ UNCHANGED envVars
  /\ UNCHANGED regVars

\* ReturnErr that releases what was built so far before returning: every
\* provider New holds is closed
ReturnErr_Cleanup(s, e) ==
  /\ pc' = "returned"
  /\ active' = active \ {s}
  /\ result' = [obj |-> Nil, err |-> e]
  /\ returns' = Append(returns, [step |-> s, err |-> e])
  /\ closed' = {v \in Locals \ {"providerSettings"} : local[v] # Nil}
  /\ UNCHANGED local

\* if err != nil { return nil, err }
ReturnErr(s, e) ==
  /\ pc' = "returned"
  /\ active' = active \ {s}
  /\ result' = [obj |-> Nil, err |-> e]
  /\ returns' = Append(returns, [step |-> s, err |-> e])
  /\ UNCHANGED <<local, closed>>

\* the call of step s returned a value: assign the local, go on to the next call
Proceed(s, v, val, next) ==
  /\ pc' = next
  /\ active' = active \ {s}
  /\ local' = [local EXCEPT ![v] = val]
  /\ returns' = Append(returns, [step |-> s, err |-> Nil])
  /\ UNCHANGED <<result, closed>>

\* a constructor of the repository that is not a ProviderFactory
Func(n, dep) == [kind |-> "func", component |-> n, name |-> n, dep |-> dep]

CallRec(f, settings, cfg) == [factory |-> f, settings |-> settings, config |-> cfg]

CalleeErr(k, c, outcome) ==
  [kind |-> IF outcome = "cancelled" THEN "Canceled" ELSE k, component |-> c,
   named |-> (outcome = "err_named")]

\* instrumentation, err := instrumentation.New(ctx, config.Instrumentation, version.Info, "signoz")
\* providerSettings := instrumentation.ToProviderSettings()
RetInstrumentation ==
  /\ "instrumentation" \in active
  /\ \E outcome \in OutcomesOf("instrumentation", CalleeOutcomes) :
       LET inst == [kind |-> "provider", factory |-> Func("instrumentation", Nil),
                    settings |-> Nil, config |-> Cfg("instrumentation")]
       IN  /\ calls' = Append(calls, CallRec(Func("instrumentation", Nil), Nil, Cfg("instrumentation")))
           /\ IF outcome # "ok"
              THEN ReturnErr("instrumentation", CalleeErr("FactoryError", "instrumentation", outcome))
              ELSE /\ pc' = "zeus"
                   /\ active' = active \ {"instrumentation"}
                   /\ local' = [local EXCEPT !["instrumentation"] = inst,
                                             !["providerSettings"] = ToProviderSettings(inst)]
                   /\ returns' = Append(returns, [step |-> "instrumentation", err |-> Nil])
                   /\ UNCHANGED <<result, closed>>
  /\ UNCHANGED <<mode, config, invoked>>
  /\ UNCHANGED envVars
  /\ UNCHANGED regVars

\* zeus, err := zeusProviderFactory.New(ctx, providerSettings, zeusConfig)
RetZeus ==
  /\ "zeus" \in active
  /\ \E outcome \in OutcomesOf("zeus", Outcomes) :
       LET r == FactoryNew(ZeusProviderFactory, local["providerSettings"], Cfg("zeus"), outcome)
       IN  /\ calls' = Append(calls, CallRec(ZeusProviderFactory, local["providerSettings"], Cfg("zeus")))
           /\ IF r.err # Nil
              THEN ReturnErr("zeus", r.err)
              ELSE Proceed("zeus", "zeus", r.provider, "emailing")
  /\ UNCHANGED <<mode, config, invoked>>
  /\ UNCHANGED envVars
  /\ UNCHANGED regVars

\* RetSelect that invokes the selected factory a second time when its construction failed
RetSelect_Retry(s, factories, next) ==
  /\ s \in active
  /\ \E outcome \in OutcomesOf(s, Outcomes), again \in OutcomesOf(s, Outcomes) :
       LET r1 == NewProviderFromNamedMap(s, local["providerSettings"], Cfg(s), factories,
                                         Cfg(s).provider, outcome)
           retry == r1.err.kind = "ConstructionFailure"
           r2 == NewProviderFromNamedMap(s, local["providerSettings"], Cfg(s), factories,
                                         Cfg(s).provider, again)
           r  == IF retry THEN r2 ELSE r1
       IN  /\ calls' = IF retry THEN calls \o r1.called \o r2.called ELSE calls \o r1.called
           /\ IF r.err # Nil
              THEN ReturnErr(s, r.err)
              ELSE Proceed(s, s, r.provider, next)
  /\ UNCHANGED <<mode, config, invoked>>
  /\ UNCHANGED envVars
  /\ UNCHANGED regVars

\* RetSelect with a NotFound selection tolerated: the component is left nil
\* and the bootstrap goes on
RetSelect_TolerateNotFound(s, factories, next) ==
  /\ s \in active
  /\ \E outcome \in OutcomesOf(s, Outcomes) :
       LET r == NewProviderFromNamedMap(s, local["providerSettings"], Cfg(s), factories,
                                        Cfg(s).provider, outcome)
       IN  /\ calls' = calls \o r.called
           /\ IF r.err # Nil /\ r.err.kind # "NotFound"
              THEN ReturnErr(s, r.err)
              ELSE /\ pc' = next
                   /\ active' = active \ {s}
                   /\ local' = [local EXCEPT ![s] = r.provider]
                   /\ returns' = Append(returns, [step |-> s, err |-> r.err])
                   /\ UNCHANGED <<result, closed>>
  /\ UNCHANGED <<mode, config, invoked>>
  /\ UNCHANGED envVars
  /\ UNCHANGED regVars

\* RetSelect handing the selector a context of its own, context.Background(),
\* in place of ctx: the callee never learns that the caller cancelled
RetSelect_OtherCtx(s, factories, next) ==
  /\ s \in active
  /\ \E outcome \in Outcomes :
       LET r == NewProviderFromNamedMap(s, local["providerSettings"], Cfg(s), factories,
                                        Cfg(s).provider, outcome)
       IN  /\ calls' = calls \o r.called
           /\ IF r.err # Nil
              THEN ReturnErr(s, r.err)
              ELSE Proceed(s, s, r.provider, next)
  /\ UNCHANGED <<mode, config, invoked>>
  /\ UNCHANGED envVars
  /\ UNCHANGED regVars

\* <v>, err := factory.NewProviderFromNamedMap(ctx, providerSettings, config.<C>, factories, config.<C>.Provider)
RetSelect(s, factories, next) ==
  /\ s \in active
  /\ \E outcome \in OutcomesOf(s, Outcomes) :
       LET r == NewProviderFromNamedMap(s, local["providerSettings"], Cfg(s), factories,
                                        Cfg(s).provider, outcome)
       IN  /\ calls' = calls \o r.called
           /\ IF r.err # Nil
              THEN ReturnErr(s, r.err)
              ELSE Proceed(s, s, r.provider, next)
  /\ UNCHANGED <<mode, config, invoked>>
  /\ UNCHANGED envVars
  /\ UNCHANGED regVars

\* RetEmailing with the cache step left out of the sequence
RetEmailing_SkipCache == RetSelect("emailing", EmailingProviderFactories, "web")

RetEmailing == RetSelect("emailing", EmailingProviderFactories, "cache")

RetCache == RetSelect("cache", CacheProviderFactories, "web")

RetWeb == RetSelect("web", WebProviderFactories, "sqlstore")

RetSqlstore == RetSelect("sqlstore", SqlstoreProviderFactories, "telemetrystore")

RetTelemetrystore == RetSelect("telemetrystore", TelemetrystoreProviderFactories, "prometheus")

RetPrometheus ==
  RetSelect("prometheus", NewPrometheusProviderFactories(local["telemetrystore"]), "sqlmigration")

\* RetSqlmigration with the error check missing: New goes on to Migrate
RetSqlmigration_NoCheck ==
  /\ "sqlmigration" \in active
  /\ \E outcome \in OutcomesOf("sqlmigration", CalleeOutcomes) :
       LET f == Func("sqlmigration", NewSQLMigrationProviderFactories(local["sqlstore"]))
           m == [kind |-> "provider", factory |-> f, settings |-> local["providerSettings"],
                 config |-> Cfg("sqlmigration")]
           e == IF outcome = "ok" THEN Nil ELSE CalleeErr("FactoryError", "sqlmigration", outcome)
       IN  /\ calls' = Append(calls, CallRec(f, local["providerSettings"], Cfg("sqlmigration")))
           /\ pc' = "migrate"
           /\ active' = active \ {"sqlmigration"}
           /\ local' = [local EXCEPT !["sqlmigrations"] = IF outcome = "ok" THEN m ELSE Nil]
           /\ returns' = Append(returns, [step |-> "sqlmigration", err |-> e])
           /\ UNCHANGED <<result, closed>>
  /\ UNCHANGED <<mode, config, invoked>>
  /\ UNCHANGED envVars
  /\ UNCHANGED regVars

\* sqlmigrations, err := sqlmigration.New(ctx, providerSettings, config.SQLMigration,
\*                                        NewSQLMigrationProviderFactories(sqlstore))
RetSqlmigration ==
  /\ "sqlmigration" \in active
  /\ \E outcome \in OutcomesOf("sqlmigration", CalleeOutcomes) :
       LET f == Func("sqlmigration", NewSQLMigrationProviderFactories(local["sqlstore"]))
           m == [kind |-> "provider", factory |-> f, settings |-> local["providerSettings"],
                 config |-> Cfg("sqlmigration")]
       IN  /\ calls' = Append(calls, CallRec(f, local["providerSettings"], Cfg("sqlmigration")))
           /\ IF outcome # "ok"
              THEN ReturnErr("sqlmigration", CalleeErr("FactoryError", "sqlmigration", outcome))
              ELSE Proceed("sqlmigration", "sqlmigrations", m, "migrate")
  /\ UNCHANGED <<mode, config, invoked>>
  /\ UNCHANGED envVars
  /\ UNCHANGED regVars

\* the ordered migration sequence
Migrations == [i \in 1..NumMigrations |-> i]

\* MigrateFrom that applies every step again, whether or not it is recorded as applied
RECURSIVE MigrateFrom_Reapply(_, _, _)
MigrateFrom_Reapply(done, i, failAt) ==
  IF i > Len(Migrations)
  THEN [applied |-> done, failed |-> 0]
  ELSE IF Migrations[i] = failAt
       THEN [applied |-> done, failed |-> failAt]
       ELSE MigrateFrom_Reapply(Append(done, Migrations[i]), i + 1, failAt)

\* MigrateFrom whose failing step is left recorded as applied
RECURSIVE MigrateFrom_Partial(_, _, _)
MigrateFrom_Partial(done, i, failAt) ==
  IF i > Len(Migrations)
  THEN [applied |-> done, failed |-> 0]
  ELSE IF Migrations[i] \in Range(done)
       THEN MigrateFrom_Partial(done, i + 1, failAt)
       ELSE IF Migrations[i] = failAt
            THEN [applied |-> Append(done, Migrations[i]), failed |-> failAt]
            ELSE MigrateFrom_Partial(Append(done, Migrations[i]), i + 1, failAt)

\* Migrator.Migrate from step i on, done being the steps applied so far: a step
\* recorded as applied is skipped; a step either applies as a whole or fails
\* and leaves no effect, and its failure ends the run
RECURSIVE MigrateFrom(_, _, _)
MigrateFrom(done, i, failAt) ==
  IF i > Len(Migrations)
  THEN [applied |-> done, failed |-> 0]
  ELSE IF Migrations[i] \in Range(done)
       THEN MigrateFrom(done, i + 1, failAt)
       ELSE IF Migrations[i] = failAt
            THEN [applied |-> done, failed |-> failAt]
            ELSE MigrateFrom(Append(done, Migrations[i]), i + 1, failAt)

\* the error of a Migrate whose step k failed, or that was interrupted at step k
\* (k = 0: interrupted with no step pending)
MigrateErr(k, interrupted) ==
  [kind |-> IF interrupted THEN "Canceled" ELSE "MigrationFailure",
   component |-> "sqlmigrator", named |-> ~interrupted, step |-> k]

\* what one Migrate call did to the storage
RunRec(before, r, interrupted) ==
  [boot      |-> boots,
   before    |-> before,
   now       |-> SubSeq(r.applied, Len(before) + 1, Len(r.applied)),
   failed    |-> r.failed,
   cancelled |-> interrupted]

\* whether Migrate returns because ctx is done: it must when it honours
\* cancellation and is interrupted, it may once ctx is done
Interruptions ==
  IF cancelledAt = "migrate" /\ honours
  THEN {TRUE}
  ELSE IF cancelledAt # "none" THEN BOOLEAN ELSE {FALSE}

\* RetMigrate with the error of Migrate dropped: _ = ...Migrate(ctx)
RetMigrate_IgnoreErr ==
  /\ "migrate" \in active
  /\ \E failAt \in 0..NumMigrations, interrupted \in Interruptions :
       LET f == Func("sqlmigrator", [kind |-> "deps", sqlstore |-> local["sqlstore"],
                                     sqlmigrations |-> local["sqlmigrations"]])
           r == MigrateFrom(applied, 1, failAt)
           e == IF r.failed = 0 /\ ~interrupted THEN Nil ELSE MigrateErr(r.failed, interrupted)
       IN  /\ calls' = Append(calls, CallRec(f, local["providerSettings"], Cfg("sqlmigrator")))
           /\ applied' = r.applied
           /\ runs' = Append(runs, RunRec(applied, r, interrupted))
           /\ pc' = "alertmanager"
           /\ active' = active \ {"migrate"}
           /\ returns' = Append(returns, [step |-> "migrate", err |-> e])
           /\ UNCHANGED <<local, result, closed>>
  /\ UNCHANGED <<mode, config, invoked, boots, cancelledAt, honours>>
  /\ UNCHANGED regVars

\* err = sqlmigrator.New(ctx, providerSettings, sqlstore, sqlmigrations, config.SQLMigrator).Migrate(ctx)
RetMigrate ==
  /\ "migrate" \in active
  /\ \E failAt \in 0..NumMigrations, interrupted \in Interruptions :
       LET f == Func("sqlmigrator", [kind |-> "deps", sqlstore |-> local["sqlstore"],
                                     sqlmigrations |-> local["sqlmigrations"]])
           r == MigrateFrom(applied, 1, failAt)
       IN  /\ calls' = Append(calls, CallRec(f, local["providerSettings"], Cfg("sqlmigrator")))
           /\ applied' = r.applied
           /\ runs' = Append(runs, RunRec(applied, r, interrupted))
           /\ IF r.failed # 0 \/ interrupted
              THEN ReturnErr("migrate", MigrateErr(r.failed, interrupted))
              ELSE /\ pc' = "alertmanager"
                   /\ active' = active \ {"migrate"}
                   /\ returns' = Append(returns, [step |-> "migrate", err |-> Nil])
                   /\ UNCHANGED <<local, result, closed>>
  /\ UNCHANGED <<mode, config, invoked, boots, cancelledAt, honours>>
  /\ UNCHANGED regVars

\* RetAlertmanager with the alertmanager factories generated from the
\* telemetry store instead of the sqlstore
RetAlertmanager_OtherStore ==
  RetSelect("alertmanager", NewAlertmanagerProviderFactories(local["telemetrystore"]), "licensing")

RetAlertmanager ==
  RetSelect("alertmanager", NewAlertmanagerProviderFactories(local["sqlstore"]), "licensing")

\* RetLicensing handing the licensing factory settings derived afresh instead
\* of providerSettings
RetLicensing_FreshSettings ==
  /\ "licensing" \in active
  /\ \E outcome \in OutcomesOf("licensing", Outcomes) :
       LET licensingProviderFactory == LicenseProviderFactoryCb(local["sqlstore"], local["zeus"])
           fresh == ToProviderSettings(Nil)
           r == FactoryNew(licensingProviderFactory, fresh, Cfg("licensing"), outcome)
       IN  /\ calls' = Append(calls, CallRec(licensingProviderFactory, fresh, Cfg("licensing")))
           /\ IF r.err # Nil
              THEN ReturnErr("licensing", r.err)
              ELSE Proceed("licensing", "licensing", r.provider, "modules")
  /\ UNCHANGED <<mode, config, invoked>>
  /\ UNCHANGED envVars
  /\ UNCHANGED regVars

\* licensingProviderFactory := licenseProviderFactoryCb(sqlstore, zeus)
\* licensing, err := licensingProviderFactory.New(ctx, providerSettings, licenseConfig)
RetLicensing ==
  /\ "licensing" \in active
  /\ \E outcome \in OutcomesOf("licensing", Outcomes) :
       LET licensingProviderFactory == LicenseProviderFactoryCb(local["sqlstore"], local["zeus"])
           r == FactoryNew(licensingProviderFactory, local["providerSettings"], Cfg("licensing"), outcome)
       IN  /\ calls' = Append(calls, CallRec(licensingProviderFactory, local["providerSettings"],
                                             Cfg("licensing")))
           /\ IF r.err # Nil
              THEN ReturnErr("licensing", r.err)
              ELSE Proceed("licensing", "licensing", r.provider, "modules")
  /\ UNCHANGED <<mode, config, invoked>>
  /\ UNCHANGED envVars
  /\ UNCHANGED regVars

\* modules := NewModules(sqlstore, jwt, emailing, providerSettings)
RetModules ==
  /\ "modules" \in active
  /\ Proceed("modules", "modules",
             NewModules(local["sqlstore"], local["emailing"], local["providerSettings"]), "handlers")
  /\ UNCHANGED <<mode, config, invoked, calls>>
  /\ UNCHANGED envVars
  /\ UNCHANGED regVars

\* handlers := NewHandlers(modules)
RetHandlers ==
  /\ "handlers" \in active
  /\ Proceed("handlers", "handlers", NewHandlers(local["modules"]), "registry")
  /\ UNCHANGED <<mode, config, invoked, calls>>
  /\ UNCHANGED envVars
  /\ UNCHANGED regVars

\* RegisteredServices with licensing registered under the name of alertmanager
RegisteredServices_Duplicate ==
  << NamedService("instrumentation", local["instrumentation"]),
     NamedService("alertmanager", local["alertmanager"]),
     NamedService("alertmanager", local["licensing"]) >>

\* RegisteredServices with the cache registered as a fourth service
RegisteredServices_WithCache ==
  << NamedService("instrumentation", local["instrumentation"]),
     NamedService("alertmanager", local["alertmanager"]),
     NamedService("licensing", local["licensing"]),
     NamedService("cache", local["cache"]) >>

\* RegisteredServices with licensing registered before alertmanager
RegisteredServices_Swapped ==
  << NamedService("instrumentation", local["instrumentation"]),
     NamedService("licensing", local["licensing"]),
     NamedService("alertmanager", local["alertmanager"]) >>

\* the named services New hands to factory.NewRegistry
RegisteredServices ==
  << NamedService("instrumentation", local["instrumentation"]),
     NamedService("alertmanager", local["alertmanager"]),
     NamedService("licensing", local["licensing"]) >>

\* Assemble with the Cache field left out of the struct literal
Assemble_MissingCache(reg) ==
  [Registry        |-> reg,
   Instrumentation |-> local["instrumentation"],
   Cache           |-> Nil,
   Web             |-> local["web"],
   SQLStore        |-> local["sqlstore"],
   TelemetryStore  |-> local["telemetrystore"],
   Prometheus      |-> local["prometheus"],
   Alertmanager    |-> local["alertmanager"],
   Zeus            |-> local["zeus"],
   Licensing       |-> local["licensing"],
   Emailing        |-> local["emailing"],
   Modules         |-> local["modules"],
   Handlers        |-> local["handlers"]]

\* return &SigNoz{...}, nil
Assemble(reg) ==
  [Registry        |-> reg,
   Instrumentation |-> local["instrumentation"],
   Cache           |-> local["cache"],
   Web             |-> local["web"],
   SQLStore        |-> local["sqlstore"],
   TelemetryStore  |-> local["telemetrystore"],
   Prometheus      |-> local["prometheus"],
   Alertmanager    |-> local["alertmanager"],
   Zeus            |-> local["zeus"],
   Licensing       |-> local["licensing"],
   Emailing        |-> local["emailing"],
   Modules         |-> local["modules"],
   Handlers        |-> local["handlers"]]

\* RetRegistry that starts the registry it has built before returning it
RetRegistry_AutoStart ==
  /\ "registry" \in active
  /\ LET r == NewRegistry(RegisteredServices)
     IN  /\ registry' = r.registry
         /\ regErr' = r.err
         /\ regState' = IF r.err = Nil THEN "Running" ELSE "None"
         /\ running' = IF r.err = Nil
                       THEN {RegisteredServices[i].name : i \in 1..Len(RegisteredServices)}
                       ELSE running
         /\ trace' = IF r.err = Nil
                     THEN trace \o [i \in 1..Len(RegisteredServices) |->
                                      [op |-> "start", name |-> RegisteredServices[i].name,
                                       ok |-> TRUE]]
                     ELSE trace
         /\ pc' = "returned"
         /\ active' = active \ {"registry"}
         /\ returns' = Append(returns, [step |-> "registry", err |-> r.err])
         /\ result' = IF r.err # Nil THEN [obj |-> Nil, err |-> r.err]
                      ELSE [obj |-> Assemble(r.registry), err |-> Nil]
  /\ UNCHANGED <<mode, config, invoked, calls, local, closed>>
  /\ UNCHANGED envVars
  /\ UNCHANGED <<regInput, history>>

\* registry, err := factory.NewRegistry(instrumentation.Logger(), ...); return &SigNoz{...}, nil
RetRegistry ==
  /\ "registry" \in active
  /\ LET r == NewRegistry(RegisteredServices)
     IN  /\ registry' = r.registry
         /\ regErr' = r.err
         /\ regState' = IF r.err = Nil THEN "Unstarted" ELSE "None"
         /\ pc' = "returned"
         /\ active' = active \ {"registry"}
         /\ returns' = Append(returns, [step |-> "registry", err |-> r.err])
         /\ result' = IF r.err # Nil THEN [obj |-> Nil, err |-> r.err]
                      ELSE [obj |-> Assemble(r.registry), err |-> Nil]
  /\ UNCHANGED <<mode, config, invoked, calls, local, closed>>
  /\ UNCHANGED envVars
  /\ UNCHANGED <<regInput, running, trace, history>>

\* ------------------------------------------- Registry lifecycle, from the spec
\* one service-level invocation, as an instrumented stub service records it
Event(op, n, ok) == [op |-> op, name |-> n, ok |-> ok]

\* StartFrom that goes on to the next service after a failed start
RECURSIVE StartFrom_GoOn(_, _, _)
StartFrom_GoOn(services, i, failing) ==
  IF i > Len(services)
  THEN [events |-> <<>>, started |-> {}, err |-> Nil]
  ELSE LET rest == StartFrom_GoOn(services, i + 1, failing)
           ok   == services[i].name \notin failing
       IN  [events  |-> <<Event("start", services[i].name, ok)>> \o rest.events,
            started |-> (IF ok THEN {services[i].name} ELSE {}) \cup rest.started,
            err     |-> IF ok THEN rest.err
                        ELSE [kind |-> "LifecycleFailure", op |-> "start",
                              names |-> {services[i].name}]]

\* Start: each service in registered order, stopping at the first failure;
\* the services already started are left running
RECURSIVE StartFrom(_, _, _)
StartFrom(services, i, failing) ==
  IF i > Len(services)
  THEN [events |-> <<>>, started |-> {}, err |-> Nil]
  ELSE IF services[i].name \in failing
       THEN [events  |-> <<Event("start", services[i].name, FALSE)>>,
             started |-> {},
             err     |-> [kind |-> "LifecycleFailure", op |-> "start", names |-> {services[i].name}]]
       ELSE LET rest == StartFrom(services, i + 1, failing)
            IN  [events  |-> <<Event("start", services[i].name, TRUE)>> \o rest.events,
                 started |-> {services[i].name} \cup rest.started,
                 err     |-> rest.err]

\* StopFrom that returns at the first failed stop
RECURSIVE StopFrom_ShortCircuit(_, _, _)
StopFrom_ShortCircuit(services, i, failing) ==
  IF i < 1
  THEN [events |-> <<>>, failed |-> {}]
  ELSE IF services[i].name \in failing
       THEN [events |-> <<Event("stop", services[i].name, FALSE)>>, failed |-> {services[i].name}]
       ELSE LET rest == StopFrom_ShortCircuit(services, i - 1, failing)
            IN  [events |-> <<Event("stop", services[i].name, TRUE)>> \o rest.events,
                 failed |-> rest.failed]

\* Stop: each service in reverse registered order, collecting the failures
RECURSIVE StopFrom(_, _, _)
StopFrom(services, i, failing) ==
  IF i < 1
  THEN [events |-> <<>>, failed |-> {}]
  ELSE LET rest == StopFrom(services, i - 1, failing)
           ok   == services[i].name \notin failing
       IN  [events |-> <<Event("stop", services[i].name, ok)>> \o rest.events,
            failed |-> (IF ok THEN {} ELSE {services[i].name}) \cup rest.failed]

ServiceNamesOf(reg) == {reg.services[i].name : i \in 1..Len(reg.services)}

\* a caller other than New builds a Registry out of stub services
NewRegistryCall ==
  /\ mode = "registry"
  /\ pc = "idle"
  /\ LET r == NewRegistry([i \in 1..Len(regInput) |->
                             NamedService(regInput[i], [kind |-> "stub", id |-> i])])
     IN  /\ registry' = r.registry
         /\ regErr' = r.err
         /\ regState' = IF r.err = Nil THEN "Unstarted" ELSE "None"
  /\ pc' = "built"
  /\ UNCHANGED <<mode, config, active, local, invoked, calls, returns, result, closed>>
  /\ UNCHANGED envVars
  /\ UNCHANGED <<regInput, running, trace, history>>

\* the caller holds a registry and may call its methods; a caller that
\* cancelled the ctx of New gives the bootstrap up and does not go on to use
\* it, and the lifecycle is exercised on the registry of the first run of New
\* (every run builds its registry afresh, from the same three services)
HoldsRegistry ==
  /\ pc \in {"returned", "built"}
  /\ registry # Nil
  /\ cancelledAt = "none"
  /\ boots <= 1
  /\ Len(history) < MaxCalls

\* Registry.Start(ctx)
RegistryStart ==
  /\ HoldsRegistry
  /\ IF regState = "Unstarted"
     THEN \E failing \in SUBSET ServiceNamesOf(registry) :
            LET r == StartFrom(registry.services, 1, failing)
            IN  /\ regState' = "Running"
                /\ running' = r.started
                /\ trace' = trace \o r.events
                /\ history' = Append(history, [op |-> "Start", ran |-> TRUE, err |-> r.err])
     ELSE /\ history' = Append(history, [op |-> "Start", ran |-> FALSE, err |-> [kind |-> "InvalidState"]])
          /\ UNCHANGED <<regState, running, trace>>
  /\ UNCHANGED <<mode, regInput, registry, regErr>>
  /\ UNCHANGED bootVars

\* RegistryStop that stops the services again on a registry already stopped
RegistryStop_Again ==
  /\ HoldsRegistry
  /\ \E failing \in SUBSET ServiceNamesOf(registry) :
       LET r == StopFrom(registry.services, Len(registry.services), failing)
       IN  /\ regState' = "Stopped"
           /\ running' = {}
           /\ trace' = trace \o r.events
           /\ history' = Append(history, [op |-> "Stop", ran |-> TRUE,
                           err |-> IF r.failed = {} THEN Nil
                                   ELSE [kind |-> "Aggregate", op |-> "stop", names |-> r.failed]])
  /\ UNCHANGED <<mode, regInput, registry, regErr>>
  /\ UNCHANGED bootVars

\* Registry.Stop(ctx)
RegistryStop ==
  /\ HoldsRegistry
  /\ IF regState # "Stopped"
     THEN \E failing \in SUBSET ServiceNamesOf(registry) :
            LET r == StopFrom(registry.services, Len(registry.services), failing)
            IN  /\ regState' = "Stopped"
                /\ running' = {}
                /\ trace' = trace \o r.events
                /\ history' = Append(history, [op |-> "Stop", ran |-> TRUE,
                                err |-> IF r.failed = {} THEN Nil
                                        ELSE [kind |-> "Aggregate", op |-> "stop", names |-> r.failed]])
     ELSE /\ \E e \in {Nil, [kind |-> "AlreadyStopped"]} :
               history' = Append(history, [op |-> "Stop", ran |-> FALSE, err |-> e])
          /\ UNCHANGED <<regState, running, trace>>
  /\ UNCHANGED <<mode, regInput, registry, regErr>>
  /\ UNCHANGED bootVars

\* the process runs New again, with the same configuration, against the same
\* storage; followed for the runs that got as far as touching the storage
Restart ==
  /\ mode = "bootstrap"
  /\ pc = "returned"
  /\ boots < MaxBoots
  /\ "migrate" \in Range(invoked)
  /\ boots' = boots + 1
  /\ pc' = "instrumentation"
  /\ active' = {}
  /\ local' = [v \in Locals |-> Nil]
  /\ invoked' = <<>>
  /\ calls' = <<>>
  /\ returns' = <<>>
  /\ result' = Nil
  /\ cancelledAt' = "none"
  /\ honours' = FALSE
  /\ closed' = {}
  /\ registry' = Nil /\ regErr' = Nil /\ regState' = "None" /\ running' = {}
  /\ trace' = <<>> /\ history' = <<>>
  /\ UNCHANGED <<mode, config, applied, runs, regInput>>

\* ------------------------------------------------------------- specification
Next ==
  \/ \E s \in Steps : Call(s)
  \/ RetInstrumentation
  \/ RetZeus
  \/ RetEmailing
  \/ RetCache
  \/ RetWeb
  \/ RetSqlstore
  \/ RetTelemetrystore
  \/ RetPrometheus
  \/ RetSqlmigration
  \/ RetMigrate
  \/ RetAlertmanager
  \/ RetLicensing
  \/ RetModules
  \/ RetHandlers
  \/ RetRegistry
  \/ NewRegistryCall
  \/ RegistryStart
  \/ RegistryStop
  \/ Restart
  \/ Cancel

Spec == Init /\ [][Next]_vars

\* ------------------------------------------------------------------ claims
StepsOf(log) == [i \in 1..Len(log) |-> log[i].step]

Returned == mode = "bootstrap" /\ pc = "returned"

Succeeded == Returned /\ result.err = Nil

\* the step s was called and returned without error
StepSucceeded(s) == \E j \in 1..Len(returns) : returns[j].step = s /\ returns[j].err = Nil

\* the step s was called and returned an error
StepFailed(s) == \E j \in 1..Len(returns) : returns[j].step = s /\ returns[j].err # Nil

\* C1: a step of New that returns an error is the last call New makes, and New
\* then returns a nil object with that non-nil error; New returns a non-nil
\* object only after every step, in order, has returned without error.
C1_ErrorAbortsBootstrap ==
  /\ \A i \in 1..Len(returns) :
       returns[i].err # Nil =>
         /\ i = Len(returns)
         /\ Len(invoked) = i
         /\ active = {}
         /\ Returned
         /\ result.obj = Nil
         /\ result.err # Nil
         /\ result.err = returns[i].err
  /\ Returned =>
       /\ (result.obj = Nil) <=> (result.err # Nil)
       /\ result.obj # Nil =>
            /\ StepsOf(returns) = StepOrder
            /\ invoked = StepOrder
            /\ \A i \in 1..Len(returns) : returns[i].err = Nil

\* the licensing step failed after zeus and sqlstore were constructed
C1_Witness ==
  /\ Returned
  /\ result.obj = Nil
  /\ returns[Len(returns)].step = "licensing"
  /\ returns[Len(returns)].err # Nil
  /\ local["zeus"] # Nil
  /\ local["sqlstore"] # Nil

\* the fixed order of section 4.3, schema migrations being one entry
BootstrapOrder ==
  <<"instrumentation", "zeus", "emailing", "cache", "web", "sqlstore", "telemetrystore",
    "prometheus", "schema migrations", "alertmanager", "licensing", "modules", "handlers",
    "registry">>

\* the calls of New as entries of BootstrapOrder: the construction of the
\* migration set opens the schema-migrations entry, Migrate belongs to it
Coarsen(log) ==
  LET kept == SelectSeq(log, LAMBDA x : x # "migrate")
  IN  [i \in 1..Len(kept) |-> IF kept[i] = "sqlmigration" THEN "schema migrations" ELSE kept[i]]

\* C2: the steps New has invoked are a prefix of the fixed order, at most one
\* step is in progress, and a step is entered only after every earlier step
\* has returned.
C2_StrictlySequential ==
  /\ IsPrefix(Coarsen(invoked), BootstrapOrder)
  /\ \A i \in 1..Len(invoked) :
       invoked[i] = "migrate" => (i > 1 /\ invoked[i - 1] = "sqlmigration")
  /\ Cardinality(active) <= 1
  /\ Len(invoked) = Len(returns) + Cardinality(active)
  /\ active # {} => active = {invoked[Len(invoked)]}
  /\ IsPrefix(StepsOf(returns), invoked)

\* the web step is in progress after four steps have returned
C2_Witness ==
  /\ active = {"web"}
  /\ Len(returns) = 4
  /\ invoked = <<"instrumentation", "zeus", "emailing", "cache", "web">>

\* C3: alertmanager and licensing are invoked, and their factories called,
\* only after the migration set was built and Migrate returned success; when
\* either of the two fails, neither alertmanager nor licensing is constructed.
C3_MigrateBeforeDependents ==
  /\ \A i \in 1..Len(invoked) :
       invoked[i] \in {"alertmanager", "licensing"} =>
         /\ \E j \in 1..(i - 1) :
              j <= Len(returns) /\ returns[j].step = "sqlmigration" /\ returns[j].err = Nil
         /\ \E j \in 1..(i - 1) :
              j <= Len(returns) /\ returns[j].step = "migrate" /\ returns[j].err = Nil
  /\ \A k \in 1..Len(calls) :
       calls[k].factory.component \in {"alertmanager", "licensing"} =>
         StepSucceeded("sqlmigration") /\ StepSucceeded("migrate")
  /\ (StepFailed("sqlmigration") \/ StepFailed("migrate")) =>
       /\ local["alertmanager"] = Nil
       /\ local["licensing"] = Nil
       /\ \A i \in 1..Len(invoked) : invoked[i] \notin {"alertmanager", "licensing"}
       /\ \A k \in 1..Len(calls) :
            calls[k].factory.component \notin {"alertmanager", "licensing"}

\* the licensing factory is being called after a successful Migrate
C3_Witness ==
  /\ active = {"licensing"}
  /\ StepSucceeded("migrate")
  /\ local["alertmanager"] # Nil

\* C4: when the name the configuration selects for a component is absent from
\* the component's factory map, the selection returns a NotFound error naming
\* the component and the name, no factory of the component is invoked, and New
\* returns that error without ever constructing a Registry.
C4_UnknownProviderNotFound ==
  \A c \in NamedComponents :
    (mode = "bootstrap" /\ config[c] \notin Registered(c) /\ c \in Range(StepsOf(returns))) =>
      LET last == returns[Len(returns)]
      IN  /\ last.step = c
          /\ last.err.kind = "NotFound"
          /\ last.err.component = c
          /\ last.err.name = config[c]
          /\ \A k \in 1..Len(calls) : calls[k].factory.component # c
          /\ Returned
          /\ result.obj = Nil
          /\ result.err = last.err
          /\ registry = Nil
          /\ "registry" \notin Range(invoked)

\* the configuration selects "redis" for cache, whose map holds only "memory"
C4_Witness ==
  /\ Returned
  /\ config["cache"] = "redis"
  /\ DOMAIN CacheProviderFactories = {"memory"}
  /\ result.err.kind = "NotFound"
  /\ result.err.component = "cache"
  /\ result.err.name = "redis"

\* the factory map New selects from, per named component
FactoriesOf(c, obj) ==
  CASE c = "emailing"       -> EmailingProviderFactories
    [] c = "cache"          -> CacheProviderFactories
    [] c = "web"            -> WebProviderFactories
    [] c = "sqlstore"       -> SqlstoreProviderFactories
    [] c = "telemetrystore" -> TelemetrystoreProviderFactories
    [] c = "prometheus"     -> NewPrometheusProviderFactories(obj.TelemetryStore)
    [] c = "alertmanager"   -> NewAlertmanagerProviderFactories(obj.SQLStore)

\* the field of the assembled object that holds a named component
FieldOf(c, obj) ==
  CASE c = "emailing"       -> obj.Emailing
    [] c = "cache"          -> obj.Cache
    [] c = "web"            -> obj.Web
    [] c = "sqlstore"       -> obj.SQLStore
    [] c = "telemetrystore" -> obj.TelemetryStore
    [] c = "prometheus"     -> obj.Prometheus
    [] c = "alertmanager"   -> obj.Alertmanager

C5_SelectedInstance ==
  Succeeded =>
    \A c \in NamedComponents :
      LET obj      == result.obj
          settings == ToProviderSettings(obj.Instrumentation)
          made     == {k \in 1..Len(calls) : calls[k].factory.component = c}
      IN  /\ config[c] \in DOMAIN FactoriesOf(c, obj)
          /\ Cardinality(made) = 1
          /\ \A k \in made :
               /\ calls[k].factory = FactoriesOf(c, obj)[config[c]]
               /\ calls[k].settings = settings
               /\ calls[k].config = [component |-> c, provider |-> config[c]]
          /\ FieldOf(c, obj).kind = "provider"
          /\ FieldOf(c, obj).factory = FactoriesOf(c, obj)[config[c]]
          /\ FieldOf(c, obj).settings = settings
          /\ FieldOf(c, obj).config = [component |-> c, provider |-> config[c]]

\* C5: after a successful New, the field of each named component holds the
\* instance made by the factory registered under the selected name, that
\* factory was invoked once with the shared provider settings and the
\* component's config, and no step changes the config.
C5_FieldsHoldSelectedInstances ==
  /\ []C5_SelectedInstance
  /\ [][config' = config]_vars

\* New succeeded with "memory" selected for cache and "postgres" for sqlstore
C5_Witness ==
  /\ Succeeded
  /\ config["cache"] = "memory"
  /\ config["sqlstore"] = "postgres"
  /\ result.obj.Cache.factory = CacheProviderFactories["memory"]
  /\ result.obj.SQLStore.factory = SqlstoreProviderFactories["postgres"]

NamesOf(reg) == [i \in 1..Len(reg.services) |-> reg.services[i].name]

\* C6: the Registry of a successful New holds exactly instrumentation,
\* alertmanager, licensing, in this order; cache, sqlstore, telemetrystore,
\* web, prometheus, zeus and emailing are fields of the object, are not among
\* the registered services, and are never started or stopped by the Registry.
C6_RegistryHoldsThreeServices ==
  Succeeded =>
    LET obj   == result.obj
        svcs  == obj.Registry.services
        plain == {obj.Cache, obj.SQLStore, obj.TelemetryStore, obj.Web, obj.Prometheus,
                  obj.Zeus, obj.Emailing}
    IN  /\ registry = obj.Registry
        /\ NamesOf(obj.Registry) = <<"instrumentation", "alertmanager", "licensing">>
        /\ Nil \notin plain
        /\ \A i \in 1..Len(svcs) : svcs[i].service \notin plain
        /\ \A k \in 1..Len(trace) :
             trace[k].name \in {"instrumentation", "alertmanager", "licensing"}

\* New succeeded and its registry was started and stopped
C6_Witness ==
  /\ Succeeded
  /\ Len(result.obj.Registry.services) = 3
  /\ result.obj.Cache # Nil
  /\ Len(trace) = 6

StartThenStop ==
  /\ registry # Nil
  /\ Len(history) >= 2
  /\ history[1].op = "Start"
  /\ history[2].op = "Stop"

AllOk == \A k \in 1..Len(trace) : trace[k].ok

\* start on all services in the given order, then stop on all in reverse order
StartStopTrace(names) ==
  [i \in 1..Len(names) |-> Event("start", names[i], TRUE)]
    \o [i \in 1..Len(names) |-> Event("stop", names[Len(names) + 1 - i], TRUE)]

\* C7: after Start followed by Stop with every service call succeeding, the
\* service-level trace is start on all N services in registration order and
\* then stop on all N in reverse order; for the registry of New: start
\* instrumentation, alertmanager, licensing, stop licensing, alertmanager,
\* instrumentation.
C7_StartThenStopOrder ==
  (StartThenStop /\ AllOk) =>
    /\ trace = StartStopTrace(NamesOf(registry))
    /\ Len(trace) = 2 * Len(registry.services)
    /\ mode = "bootstrap" =>
         trace = StartStopTrace(<<"instrumentation", "alertmanager", "licensing">>)

\* the registry built by New was started and stopped without failure
C7_Witness ==
  /\ mode = "bootstrap"
  /\ StartThenStop
  /\ AllOk
  /\ Len(trace) = 6

StartEvents == SelectSeq(trace, LAMBDA e : e.op = "start")

StopEvents == SelectSeq(trace, LAMBDA e : e.op = "stop")

EventNames(evs) == [i \in 1..Len(evs) |-> evs[i].name]

\* C8: a Stop that runs invokes stop on every service, in reverse registered
\* order, whether or not an earlier stop failed, and returns an aggregate
\* error exactly when at least one of the stops failed.
C8_StopCollectsFailures ==
  registry # Nil =>
    \A k \in 1..Len(history) :
      history[k].op = "Stop" =>
        IF history[k].ran
        THEN /\ EventNames(StopEvents) = Reverse(NamesOf(registry))
             /\ (history[k].err.kind = "Aggregate") <=>
                  (\E i \in 1..Len(StopEvents) : ~StopEvents[i].ok)
             /\ (history[k].err = Nil) <=>
                  (\A i \in 1..Len(StopEvents) : StopEvents[i].ok)
             /\ history[k].err # Nil =>
                  history[k].err.names = {StopEvents[i].name : i \in
                                            {j \in 1..Len(StopEvents) : ~StopEvents[j].ok}}
        ELSE history[k].err.kind # "Aggregate"

\* the first stop of a three-service registry failed and the other two were still stopped
C8_Witness ==
  /\ registry # Nil
  /\ Len(StopEvents) = 3
  /\ ~StopEvents[1].ok
  /\ StopEvents[2].ok
  /\ StopEvents[3].ok
  /\ history[Len(history)].err.kind = "Aggregate"

\* C9: a Start that runs starts the services in registered order up to and
\* including the first one that fails; it returns an error exactly when a
\* start failed, the services started before the failure stay running (no
\* stop is invoked by Start), and a Stop called afterwards runs to completion.
C9_StartFailsFast ==
  registry # Nil =>
    \A k \in 1..Len(history) :
      (history[k].op = "Start" /\ history[k].ran) =>
        LET okNames == {StartEvents[i].name : i \in {j \in 1..Len(StartEvents) : StartEvents[j].ok}}
        IN  /\ IsPrefix(EventNames(StartEvents), NamesOf(registry))
            /\ \A i \in 1..Len(StartEvents) : ~StartEvents[i].ok => i = Len(StartEvents)
            /\ (history[k].err # Nil) <=> (\E i \in 1..Len(StartEvents) : ~StartEvents[i].ok)
            /\ history[k].err = Nil => Len(StartEvents) = Len(registry.services)
            /\ k = Len(history) =>
                 /\ StopEvents = <<>>
                 /\ running = okNames
                 /\ regState # "Stopped"
            /\ (k < Len(history) /\ history[k + 1].op = "Stop") =>
                 /\ history[k + 1].ran
                 /\ regState = "Stopped"
                 /\ EventNames(StopEvents) = Reverse(NamesOf(registry))

\* the second of three services failed to start: the first is left running, the third untouched
C9_Witness ==
  /\ registry # Nil
  /\ Len(registry.services) = 3
  /\ Len(history) = 1
  /\ history[1].op = "Start"
  /\ history[1].err # Nil
  /\ Len(StartEvents) = 2
  /\ ~StartEvents[2].ok
  /\ running = {registry.services[1].name}

StopInvocations(n) == {i \in 1..Len(trace) : trace[i].op = "stop" /\ trace[i].name = n}

\* C10: the stop of each registered service is invoked at most once over the
\* life of the registry, and once the registry is Stopped no call changes its
\* state or invokes a service again (a later call of New builds another registry).
C10_StopIdempotent ==
  /\ [](registry # Nil => \A n \in ServiceNamesOf(registry) : Cardinality(StopInvocations(n)) <= 1)
  /\ [][(regState = "Stopped" /\ boots' = boots) =>
          (regState' = "Stopped" /\ trace' = trace /\ running' = running)]_vars

\* Stop was called twice on a registry of three services
C10_Witness ==
  /\ registry # Nil
  /\ Len(registry.services) = 3
  /\ Len(history) >= 2
  /\ history[1].op = "Stop"
  /\ history[2].op = "Stop"
  /\ ~history[2].ran
  /\ Len(StopEvents) = 3

HasDuplicate(names) == \E i, j \in 1..Len(names) : i # j /\ names[i] = names[j]

\* C11: NewRegistry fails with DuplicateName exactly when two of the services
\* it is given share a name, and then no registry exists and no service is
\* ever started; the three names New registers are pairwise distinct, so the
\* registry step of New never returns this error.
C11_DuplicateNameRejected ==
  /\ (mode = "registry" /\ pc = "built") =>
       IF HasDuplicate(regInput)
       THEN /\ regErr.kind = "DuplicateName"
            /\ registry = Nil
            /\ regState = "None"
            /\ trace = <<>>
            /\ history = <<>>
       ELSE regErr = Nil /\ registry # Nil
  /\ mode = "bootstrap" =>
       /\ "registry" \in Range(StepsOf(returns)) =>
            ~HasDuplicate([i \in 1..Len(RegisteredServices) |-> RegisteredServices[i].name])
       /\ regErr = Nil
       /\ \A i \in 1..Len(returns) : returns[i].step = "registry" => returns[i].err = Nil
       /\ Returned => result.err.kind # "DuplicateName"

\* a direct caller handed three services, the first and the last under one name
C11_Witness ==
  /\ mode = "registry"
  /\ pc = "built"
  /\ Len(regInput) = 3
  /\ regInput[1] = regInput[3]
  /\ regErr.kind = "DuplicateName"
  /\ registry = Nil

\* the component a step of New constructs
ComponentOf(s) ==
  CASE s = "migrate" -> "sqlmigrator"
    [] OTHER         -> s

\* the error e tells which component failed (and, for a selection, which provider)
Identifies(e, s) ==
  CASE e.kind \in {"NotFound", "ConstructionFailure"} ->
         e.component = ComponentOf(s) /\ e.name = config[s]
    [] e.kind \in {"FactoryError", "MigrationFailure"} ->
         e.component = ComponentOf(s) /\ e.named
    [] OTHER -> FALSE

\* C12: the error New returns identifies the component of the step that
\* failed; in particular a failure of the licensing step is returned as an
\* error attributable to licensing.
C12_ErrorsCarryIdentity ==
  (Returned /\ result.err # Nil) =>
    Identifies(result.err, returns[Len(returns)].step)

\* C13: within one call of New no step is invoked twice, at most one factory
\* is invoked per component and no factory is invoked twice; a step whose
\* construction failed is the last call of New, and the failed factory is the
\* last factory invoked.
C13_NoRetryNoFallback ==
  /\ \A i, j \in 1..Len(invoked) : i # j => invoked[i] # invoked[j]
  /\ \A k, l \in 1..Len(calls) :
       k # l => /\ calls[k].factory.component # calls[l].factory.component
                /\ calls[k].factory # calls[l].factory
  /\ \A i \in 1..Len(returns) :
       returns[i].err # Nil =>
         /\ i = Len(returns)
         /\ Returned
         /\ returns[i].err.kind \in {"ConstructionFailure", "FactoryError"} =>
              calls[Len(calls)].factory.component = returns[i].step

\* the selected sqlstore factory failed; it is the sixth and last constructor invoked
C13_Witness ==
  /\ Returned
  /\ result.err.kind = "ConstructionFailure"
  /\ result.err.component = "sqlstore"
  /\ Len(calls) = 6
  /\ calls[6].factory.component = "sqlstore"

\* C14: once a Migrate run over the sequence has applied every step, every
\* later run against the same storage applies no step and no step of it
\* fails, so a later call of New, unless its ctx is cancelled, passes its
\* migration step.
C14_MigrationReentryIdempotent ==
  /\ \A i, j \in 1..Len(runs) :
       (i < j /\ runs[i].failed = 0) =>
         /\ runs[j].now = <<>>
         /\ runs[j].failed = 0
         /\ runs[j].before = runs[i].before \o runs[i].now
  /\ \A i, j \in 1..Len(runs) :
       (i < j /\ runs[i].failed = 0 /\ runs[j].boot = boots /\ ~runs[j].cancelled) =>
         StepSucceeded("migrate")
  /\ \A i \in 1..Len(runs) : runs[i].failed = 0 => runs[i].before \o runs[i].now = Migrations

\* the second call of New migrated a storage that the first call had migrated completely
C14_Witness ==
  /\ boots = 2
  /\ Len(runs) = 2
  /\ runs[1].failed = 0
  /\ runs[1].now = Migrations
  /\ runs[2].now = <<>>
  /\ runs[2].failed = 0
  /\ ~runs[2].cancelled
  /\ StepSucceeded("migrate")

\* C15: when step k of a Migrate run fails, the storage records exactly the
\* steps before k as applied, the call of New that ran it returns nil and the
\* migration error, and the next run starts with step k: it applies no step
\* already recorded and k is the first step it applies or fails on.
C15_MigrationFailureStepAtomic ==
  /\ IsPrefix(applied, Migrations)
  /\ \A i \in 1..Len(runs) :
       LET k == runs[i].failed
       IN  k # 0 =>
             /\ runs[i].before \o runs[i].now = SubSeq(Migrations, 1, k - 1)
             /\ i = Len(runs) => applied = SubSeq(Migrations, 1, k - 1)
             /\ runs[i].boot = boots =>
                  /\ Returned
                  /\ result.obj = Nil
                  /\ result.err = MigrateErr(k, runs[i].cancelled)
             /\ i < Len(runs) =>
                  /\ runs[i + 1].before = SubSeq(Migrations, 1, k - 1)
                  /\ Range(runs[i + 1].now) \cap Range(runs[i + 1].before) = {}
                  /\ IF runs[i + 1].now = <<>>
                     THEN runs[i + 1].failed = k
                     ELSE runs[i + 1].now[1] = k

\* step 2 failed in the first call of New with step 1 applied; the second call resumed at step 2
C15_Witness ==
  /\ Len(runs) = 2
  /\ runs[1].failed = 2
  /\ runs[1].now = <<1>>
  /\ runs[2].before = <<1>>
  /\ runs[2].now[1] = 2
  /\ runs[2].failed = 0

\* the error is the context's error, as it is or wrapped by the selector
IsCtxErr(e) ==
  \/ e.kind = "Canceled"
  \/ e.kind = "ConstructionFailure" /\ e.cause.kind = "Canceled"

\* C16: every call of New up to and including the licensing factory is handed
\* the caller's ctx; when the caller cancels ctx while such a call is in
\* progress and the callee honours cancellation, that call returns an error
\* (the context's error whenever a factory or the migrator was running), it is
\* the last call New makes, and New returns a nil object with that error,
\* without building a registry.
C16_CancellationAborts ==
  /\ CtxSteps = Range(SubSeq(StepOrder, 1, 12))
  /\ (cancelledAt # "none" /\ honours) =>
       /\ cancelledAt \in CtxSteps
       /\ cancelledAt \in Range(invoked)
       /\ \A i \in 1..Len(returns) :
            returns[i].step = cancelledAt =>
              /\ returns[i].err # Nil
              /\ IsCtxErr(returns[i].err) \/ returns[i].err.kind = "NotFound"
              /\ returns[i].err.kind = "NotFound" => Len(calls) = i - 1
              /\ i = Len(returns)
              /\ invoked[Len(invoked)] = cancelledAt
              /\ Returned
              /\ result = [obj |-> Nil, err |-> returns[i].err]
              /\ registry = Nil

\* the caller cancelled ctx while the sqlstore factory was running: New
\* returned the context's error, the web provider built before it still standing
C16_Witness ==
  /\ cancelledAt = "sqlstore"
  /\ honours
  /\ Returned
  /\ returns[Len(returns)].step = "sqlstore"
  /\ IsCtxErr(result.err)
  /\ result.obj = Nil
  /\ local["web"] # Nil
  /\ "telemetrystore" \notin Range(invoked)

\* the components whose constructors New hands providerSettings to
SettingsReceivers ==
  {"zeus", "emailing", "cache", "web", "sqlstore", "telemetrystore", "prometheus",
   "sqlmigration", "sqlmigrator", "alertmanager", "licensing"}

\* C17: providerSettings is derived from instrumentation when the first step
\* has succeeded and not before, and within a call of New it is never assigned
\* again; every constructor New invokes after instrumentation, and NewModules,
\* receives exactly that value, and a successful New has handed it to all
\* eleven of them.
C17_SettingsDerivedOnceAndShared ==
  /\ [](/\ local["providerSettings"] =
             IF StepSucceeded("instrumentation")
             THEN ToProviderSettings(local["instrumentation"]) ELSE Nil
        /\ \A i \in 1..Len(calls) :
             IF i = 1
             THEN calls[i].factory.component = "instrumentation" /\ calls[i].settings = Nil
             ELSE /\ calls[i].factory.component \in SettingsReceivers
                  /\ calls[i].settings = ToProviderSettings(local["instrumentation"])
                  /\ calls[i].settings = local["providerSettings"]
        /\ local["modules"] # Nil => local["modules"].settings = local["providerSettings"]
        /\ Succeeded =>
             {calls[i].factory.component : i \in 2..Len(calls)} = SettingsReceivers)
  /\ [][(local["providerSettings"] # Nil /\ boots' = boots) =>
         local'["providerSettings"] = local["providerSettings"]]_vars

\* New succeeded: the licensing factory, the last to be invoked, and NewModules
\* received the settings derived from instrumentation
C17_Witness ==
  /\ Succeeded
  /\ Len(calls) = 12
  /\ calls[12].factory.component = "licensing"
  /\ calls[12].settings = ToProviderSettings(local["instrumentation"])
  /\ calls[2].settings = calls[12].settings
  /\ local["modules"].settings = calls[12].settings
  /\ local["instrumentation"] # Nil

\* the factory or constructor New invoked for component c
InvokedFor(c) == calls[CHOOSE i \in 1..Len(calls) : calls[i].factory.component = c].factory

WasInvokedFor(c) == \E i \in 1..Len(calls) : calls[i].factory.component = c

\* C18: every dependent is handed the instance New holds in its local, and a
\* successful New exposes those same instances: the sqlstore given to the
\* migration factories, the migrator, the alertmanager factories, the
\* licensing callback and NewModules is SigNoz.SQLStore, the zeus given to the
\* licensing callback is SigNoz.Zeus, the telemetrystore given to the
\* prometheus factories is SigNoz.TelemetryStore, and the services registered
\* as alertmanager and licensing are SigNoz.Alertmanager and SigNoz.Licensing.
C18_DependentsShareInstances ==
  /\ WasInvokedFor("prometheus") => InvokedFor("prometheus").dep = local["telemetrystore"]
  /\ WasInvokedFor("sqlmigration") =>
       InvokedFor("sqlmigration").dep = NewSQLMigrationProviderFactories(local["sqlstore"])
  /\ WasInvokedFor("sqlmigrator") =>
       /\ InvokedFor("sqlmigrator").dep.sqlstore = local["sqlstore"]
       /\ InvokedFor("sqlmigrator").dep.sqlmigrations = local["sqlmigrations"]
  /\ WasInvokedFor("alertmanager") => InvokedFor("alertmanager").dep = local["sqlstore"]
  /\ WasInvokedFor("licensing") =>
       /\ InvokedFor("licensing").dep.sqlstore = local["sqlstore"]
       /\ InvokedFor("licensing").dep.zeus = local["zeus"]
  /\ local["modules"] # Nil => local["modules"].sqlstore = local["sqlstore"]
  /\ Succeeded =>
       LET obj == result.obj
       IN  /\ obj.SQLStore # Nil /\ obj.Zeus # Nil /\ obj.TelemetryStore # Nil
           /\ obj.Alertmanager # Nil /\ obj.Licensing # Nil
           /\ InvokedFor("sqlmigration").dep.sqlstore = obj.SQLStore
           /\ InvokedFor("sqlmigrator").dep.sqlstore = obj.SQLStore
           /\ InvokedFor("alertmanager").dep = obj.SQLStore
           /\ obj.Alertmanager.factory.dep = obj.SQLStore
           /\ InvokedFor("licensing").dep.sqlstore = obj.SQLStore
           /\ InvokedFor("licensing").dep.zeus = obj.Zeus
           /\ obj.Licensing.factory.dep = [kind |-> "deps", sqlstore |-> obj.SQLStore,
                                           zeus |-> obj.Zeus]
           /\ obj.Modules.sqlstore = obj.SQLStore
           /\ InvokedFor("prometheus").dep = obj.TelemetryStore
           /\ obj.Prometheus.factory.dep = obj.TelemetryStore
           /\ obj.Registry.services[2] = NamedService("alertmanager", obj.Alertmanager)
           /\ obj.Registry.services[3] = NamedService("licensing", obj.Licensing)

\* New succeeded on the postgres sqlstore: the alertmanager it exposes was
\* built by a factory generated from that very sqlstore
C18_Witness ==
  /\ Succeeded
  /\ result.obj.SQLStore.factory.name = "postgres"
  /\ result.obj.Alertmanager.factory.dep = result.obj.SQLStore
  /\ result.obj.Registry.services[2].service = result.obj.Alertmanager
  /\ result.obj.Licensing.factory.dep.zeus = result.obj.Zeus
  /\ result.obj.TelemetryStore # result.obj.SQLStore

\* the local that New assigns from the value step s returns
LocalOf(s) == IF s = "sqlmigration" THEN "sqlmigrations" ELSE s

\* C19: New invokes no stop or close on any provider, whatever happens; when
\* a step fails, every provider built by the steps before it is still held,
\* constructed and unreleased, in the frame New leaves, and the caller gets a
\* nil object and no registry, hence nothing through which to release them.
C19_NoCleanupOnFailure ==
  /\ mode = "bootstrap" => closed = {}
  /\ (mode = "bootstrap" /\ pc # "returned") => trace = <<>>
  /\ (Returned /\ result.err # Nil) =>
       /\ result.obj = Nil
       /\ registry = Nil
       /\ trace = <<>>
       /\ returns[Len(returns)].err = result.err
       /\ \A i \in 1..(Len(returns) - 1) :
            /\ returns[i].err = Nil
            /\ returns[i].step \in Locals \cup {"sqlmigration"} =>
                 /\ local[LocalOf(returns[i].step)] # Nil
                 /\ LocalOf(returns[i].step) \notin closed

\* the licensing factory failed: New returned nil with the sqlstore and the
\* alertmanager it had built left as they were
C19_Witness ==
  /\ Returned
  /\ StepFailed("licensing")
  /\ result.obj = Nil
  /\ local["sqlstore"] # Nil
  /\ local["alertmanager"] # Nil
  /\ local["instrumentation"] # Nil
  /\ closed = {}

\* how many times New has invoked factory.NewRegistry in this call
RegistryCreations == Cardinality({i \in 1..Len(invoked) : invoked[i] = "registry"})

\* C20: New invokes no Start and no Stop: while New runs no service has been
\* started or stopped and there is no registry yet; New calls NewRegistry at
\* most once, as its last call, when every provider, the modules and the
\* handlers have been constructed; the registry a successful New returns is
\* Unstarted, and by the time any service is started all three registered
\* services exist and instrumentation has already supplied the shared settings.
C20_RegistryUnstartedCreatedOnce ==
  mode = "bootstrap" =>
    /\ pc # "returned" =>
         /\ registry = Nil /\ regState = "None"
         /\ trace = <<>> /\ running = {} /\ history = <<>>
    /\ RegistryCreations <= 1
    /\ "registry" \in Range(invoked) =>
         /\ invoked = StepOrder
         /\ \A v \in Locals : local[v] # Nil
         /\ \A s \in Steps \ {"registry"} : StepSucceeded(s)
    /\ Succeeded =>
         /\ RegistryCreations = 1
         /\ registry # Nil
         /\ result.obj.Registry = registry
         /\ history = <<>> => (regState = "Unstarted" /\ trace = <<>> /\ running = {})
    /\ (history = <<>>) => (trace = <<>> /\ running = {} /\ regState \in {"None", "Unstarted"})
    /\ trace # <<>> =>
         /\ Succeeded
         /\ history[1].ran
         /\ \A i \in 1..Len(registry.services) : registry.services[i].service # Nil
         /\ local["providerSettings"] = ToProviderSettings(registry.services[1].service)

\* New has just returned its object: the registry in it is Unstarted and no
\* service has been started
C20_Witness ==
  /\ Succeeded
  /\ history = <<>>
  /\ regState = "Unstarted"
  /\ trace = <<>>
  /\ result.obj.Registry = registry
  /\ Len(registry.services) = 3
  /\ invoked[Len(invoked)] = "registry"

====
